---- MODULE Spec2Model ----
(***************************************************************************)
(* State-machine model of the Letterboxd scraping job pipeline of          *)
(* src/routes/api/letterboxd-schema.js: the module-level job map, the       *)
(* submit and status handlers, the startScraping orchestrator (one step per *)
(* await, plus the synchronous continuations that run between awaits) and   *)
(* the eviction timers.  The browser collaborator is the environment: each  *)
(* awaited call resolves or rejects nondeterministically.  The POST handler *)
(* of src/routes/api/model1.js, with its cached network, has a specification*)
(* of its own (Model1Spec).                                                 *)
(*                                                                         *)
(* JavaScript runs one continuation at a time: `running` names the job      *)
(* whose synchronous continuation is in progress (0 when the event loop is  *)
(* idle), and no other handler, timer or continuation runs meanwhile.       *)
(***************************************************************************)
EXTENDS Integers, Sequences, FiniteSets, TLC

------------------------------------------------------------------------------
(* Bounds of the model. *)

\* Number of submissions that create a job.
MaxJobs == 2
\* Most milliseconds the clock has advanced when a later submission reads it
\* (the wait for an eviction timer apart, which lasts as long as it needs).
MaxElapse == 1
\* Largest page number the pagination control of a listing shows.
MaxPageNo == 2
\* Largest number of li.griditem elements on one listing page.
MaxItems == 1

------------------------------------------------------------------------------
(* Values. *)

\* The delay of the eviction timer, in milliseconds.
Retention == 3600000

\* No response was produced.
NoResponse == [op |-> "none", req |-> <<>>, code |-> 0, body |-> <<>>]

\* The last step delivered nothing of note; otherwise job is the job object
\* and what is one of "profile.read", "profile.fault" (an exception inside
\* scrapeProfile), "page.missing" (no ul.grid on the page), "page.fault" (the
\* navigation to a listing page, or reading it, threw).
NoEvent == [job |-> 0, what |-> "none"]
Event(o, what) == [job |-> o, what |-> what]

\* The item loop handed the element el of a page of job o to its callback.
ItemEvent(o, el) == [job |-> o, what |-> "item", item |-> el]

\* A Map without keys.
EmptyMap == [k \in {} |-> 0]

\* An absent value (undefined / null) and a present one.
None == <<>>
Some(x) == <<x>>

Usernames == {"", "alice"}

\* error.message of what the browser collaborator or the parsing code throws.
ErrorMessages == {"Navigation timeout of 60000 ms exceeded"}

\* `job_${Date.now()}`
JobId(t) == <<"job_", t>>
\* A missing or empty jobId query parameter.
EmptyId == <<>>
\* An id no submission ever produced.
UnknownId == JobId(0 - 1)

Digits == <<"0", "1", "2", "3", "4", "5", "6", "7", "8", "9">>
IsDigit(c) == \E d \in 1..10 : Digits[d] = c
DigitVal(c) == (CHOOSE d \in 1..10 : Digits[d] = c) - 1

\* The decimal digits of s from position i on, up to the first non-digit.
RECURSIVE ParseDigits(_, _, _)
ParseDigits(s, i, acc) ==
  IF i > Len(s) \/ ~IsDigit(s[i]) THEN acc
  ELSE ParseDigits(s, i + 1, acc * 10 + DigitVal(s[i]))

\* parseInt(text) on a trimmed text: None stands for NaN.
ParseInt(s) ==
  LET signed == Len(s) > 0 /\ s[1] \in {"-", "+"}
      first  == IF signed THEN 2 ELSE 1
      sign   == IF Len(s) > 0 /\ s[1] = "-" THEN 0 - 1 ELSE 1
  IN IF first > Len(s) \/ ~IsDigit(s[first]) THEN None
     ELSE Some(sign * ParseDigits(s, first, 0))

\* The texts of the links $(".paginate-pages li a") of a listing root: no
\* control at all, a control ending in a non-numeric entry, one ending in
\* "0", and the controls 1..n of a listing of n > 1 pages.
PaginationLists ==
  {<<>>, << <<"1">>, <<"x">> >>, << <<"0">> >>}
    \cup {[i \in 1..n |-> <<Digits[i + 1]>>] : n \in 2..MaxPageNo}

\* What the pagination control says: the number in its last entry (None
\* without a control or with a last entry that is no number).
ControlValue(links) == IF links = <<>> THEN None ELSE ParseInt(links[Len(links)])

\* Lines 309-316: totalPages from the pagination links.
TotalPagesOf(links) ==
  IF Len(links) # 0
    THEN LET parsedPage == ParseInt(links[Len(links)])
         IN IF parsedPage # None THEN parsedPage[1] ELSE 1
    ELSE 1

\* The items of one listing page: "ok" has a name and a slug, "skip" lacks
\* one of them (or its data container), "throw" makes the item callback
\* throw (item-name read back as a non-string).
ItemKinds == {"ok", "skip", "throw"}
RECURSIVE SeqsUpTo(_, _)
SeqsUpTo(S, n) ==
  IF n = 0 THEN {<<>>}
  ELSE LET shorter == SeqsUpTo(S, n - 1)
       IN shorter \cup {Append(s, x) : s \in {t \in shorter : Len(t) = n - 1}, x \in S}
ItemLists == SeqsUpTo(ItemKinds, MaxItems)

\* Index of the first item whose callback throws, or 0.
FirstThrow(items) ==
  IF \E i \in 1..Len(items) : items[i] = "throw"
    THEN CHOOSE i \in 1..Len(items) :
           items[i] = "throw" /\ \A k \in 1..(i - 1) : items[k] # "throw"
    ELSE 0

\* Lines 353-365: how many items of a page the callback gets past its two
\* returns for (a data container, a name and a slug), up to the item that
\* throws (if any).
OkItems(items) ==
  LET t == FirstThrow(items)
      last == IF t = 0 THEN Len(items) ELSE t - 1
  IN Cardinality({i \in 1..last : items[i] = "ok"})

\* Lines 350-404: the records the item loop pushes for one page, in order,
\* up to the item that throws (if any).
RECURSIVE PushedFrom(_, _, _, _)
PushedFrom(items, page, i, last) ==
  IF i > last THEN <<>>
  ELSE (IF items[i] = "ok" THEN <<[page |-> page, index |-> i]>> ELSE <<>>)
         \o PushedFrom(items, page, i + 1, last)
Pushed(items, page) ==
  LET t == FirstThrow(items)
  IN PushedFrom(items, page, 1, IF t = 0 THEN Len(items) ELSE t - 1)

\* A text is a sequence of characters.  Whitespace is what \s and trim() take
\* for white space; "*" stands for the full-star glyph and "h" for the
\* half-star glyph.
Whitespace == {" "}
Star == "*"
HalfStar == "h"

\* String.prototype.trim.
RECURSIVE Trim(_)
Trim(s) ==
  IF s = <<>> THEN s
  ELSE IF s[1] \in Whitespace THEN Trim(Tail(s))
  ELSE IF s[Len(s)] \in Whitespace THEN Trim(SubSeq(s, 1, Len(s) - 1))
  ELSE s

\* Line 370: nameWithYear.match(/\s\((\d{4})\)$/): None for null, else the
\* matched text (yearMatch[0]) and its group (yearMatch[1]).
Match(s) ==
  LET n == Len(s)
  IN IF /\ n >= 7
        /\ s[n - 6] \in Whitespace /\ s[n - 5] = "(" /\ s[n] = ")"
        /\ \A i \in (n - 4)..(n - 1) : IsDigit(s[i])
       THEN Some([whole |-> SubSeq(s, n - 6, n), group |-> SubSeq(s, n - 4, n - 1)])
       ELSE None

\* Where pattern first occurs in s, or 0.
IndexOf(s, pattern) ==
  LET at == {i \in 1..(Len(s) - Len(pattern) + 1) :
               SubSeq(s, i, i + Len(pattern) - 1) = pattern}
  IN IF at = {} THEN 0 ELSE CHOOSE i \in at : \A k \in at : i <= k

\* String.prototype.replace(pattern, "") with a string pattern: the first
\* occurrence of pattern is taken out.
Replace(s, pattern) ==
  LET i == IndexOf(s, pattern)
  IN IF i = 0 THEN s
     ELSE SubSeq(s, 1, i - 1) \o SubSeq(s, i + Len(pattern), Len(s))

\* Lines 367-374: name and year from the combined string.
NameAndYear(nameWithYear) ==
  LET yearMatch == Match(nameWithYear)
  IN IF yearMatch # None
       THEN [name |-> Trim(Replace(nameWithYear, yearMatch[1].whole)),
             year |-> Some(yearMatch[1].group)]
       ELSE [name |-> nameWithYear, year |-> None]

\* How many times glyph occurs in s.
Count(s, glyph) == Cardinality({i \in 1..Len(s) : s[i] = glyph})

\* An item callback that counts a half star for every half-star glyph.
RatingOfEveryHalf(text) ==
  LET ratingText == Trim(text)
  IN IF ratingText # <<>>
       THEN 2 * Count(ratingText, Star) + Count(ratingText, HalfStar)
       ELSE 0

\* Lines 376-386: the rating of an item from the text of its rating
\* element (empty without one), in half stars: stars + 0.5 is 2 * stars + 1.
RatingOf(text) ==
  LET ratingText == Trim(text)
  IN IF ratingText # <<>>
       THEN 2 * Count(ratingText, Star)
              + (IF Count(ratingText, HalfStar) > 0 THEN 1 ELSE 0)
       ELSE 0

\* Lines 388-393: the record of an item.
FilmData(el) ==
  LET parsed == NameAndYear(el.name[1])
  IN [Name |-> parsed.name, Year |-> parsed.year,
      URI |-> <<"https://letterboxd.com">> \o el.slug[1],
      Rating |-> RatingOf(el.ratingText)]

\* The combined strings of an item: up to MaxChunks pieces, each a letter,
\* a space, a year suffix, or something close to one.
MaxChunks == 3
Chunks ==
  {<<"A">>, <<" ">>,
   <<" ", "(", "1", "9", "9", "9", ")">>,
   <<" ", "(", "2", "0", "1", "6", ")">>,
   <<"(", "1", "9", "9", "9", ")">>,
   <<" ", "(", "1", "9", "9", ")">>,
   <<" ", "(", "1", "9", "9", "9", ")", " ">>}
RECURSIVE Flatten(_)
Flatten(chunks) ==
  IF chunks = <<>> THEN <<>> ELSE Head(chunks) \o Flatten(Tail(chunks))
NameTexts == {Flatten(chunks) : chunks \in SeqsUpTo(Chunks, MaxChunks)}

\* The rating texts of an item: up to MaxGlyphs stars, halves and spaces.
MaxGlyphs == 4
RatingTexts == SeqsUpTo({Star, HalfStar, " "}, MaxGlyphs)

\* The li.griditem elements of a page: one without the data container, one
\* without item-name, one without item-slug, and the whole ones: every
\* combined string with one rating text, and every rating text with one
\* combined string.
GridItems ==
  LET whole == [container |-> TRUE, name |-> Some(<<"A">>),
                slug |-> Some(<<"/film/a/">>), ratingText |-> <<Star>>]
  IN {[whole EXCEPT !.container = FALSE], [whole EXCEPT !.name = None],
      [whole EXCEPT !.slug = None]}
       \cup {[whole EXCEPT !.name = Some(t)] : t \in NameTexts}
       \cup {[whole EXCEPT !.ratingText = r] : r \in RatingTexts}

\* Lines 262-274: the summary scrapeProfile returns from its catch.
DegradedProfile(username) ==
  [displayName |-> username, username |-> username, avatarUrl |-> None,
   location |-> None, bio |-> None,
   stats |-> [totalFilms |-> 0, filmsThisYear |-> 0, following |-> 0, followers |-> 0]]

\* Lines 247-259: a summary read from the profile page.
PageProfile(username) ==
  [displayName |-> "Display Name", username |-> username, avatarUrl |-> None,
   location |-> None, bio |-> None,
   stats |-> [totalFilms |-> 1, filmsThisYear |-> 0, following |-> 0, followers |-> 0]]

\* Lines 441-447: the record the submit handler stores.
NewJob ==
  [status |-> "pending", data |-> <<>>, profileData |-> None,
   progress |-> [num |-> 0, den |-> 1], totalPages |-> 1, error |-> None]

------------------------------------------------------------------------------
(* State. *)

VARIABLES
  now,           \* the clock (Date.now(), the event loop's time), in ms since the
                 \* first submission read it
  scrapingJobs,  \* the Map: job id -> job object (an index of heap)
  heap,          \* the job objects ever created, in creation order
  tasks,         \* the startScraping call of each job object: its locals and position
  timers,        \* pending eviction timers: job object -> due time
  running,       \* the job whose synchronous continuation is running, or 0
  resp,          \* the response the last step produced (NoResponse if none)
  issued,        \* the jobIds returned by submissions, in order
  sessions,      \* per job object: what happened to its browser session and timer
  event,         \* what the browser delivered to the last step (NoEvent if nothing
                 \* a claim speaks of)
  modelInstance, \* model1.js: the cached network (None before the first build)
  calls          \* model1.js: the invocations of its POST handler, in order

vars ==
  <<now, scrapingJobs, heap, tasks, timers, running, resp, issued, sessions, event,
    modelInstance, calls>>

\* The state of routes/api/model1.js, which shares nothing with the scraper.
model1 == <<modelInstance, calls>>

Objs == 1..Len(heap)

Init ==
  /\ now = 0
  /\ scrapingJobs = EmptyMap
  /\ heap = <<>>
  /\ tasks = <<>>
  /\ timers = EmptyMap
  /\ running = 0
  /\ resp = NoResponse
  /\ issued = <<>>
  /\ sessions = <<>>
  /\ event = NoEvent
  /\ modelInstance = None
  /\ calls = <<>>


------------------------------------------------------------------------------
(* Helpers on the state. *)

\* Map.prototype.delete
MapDelete(m, k) == [x \in (DOMAIN m) \ {k} |-> m[x]]

\* Map.prototype.has
Has(id) == id \in DOMAIN scrapingJobs

\* The job object the map holds under id.
JobOf(id) == heap[scrapingJobs[id]]

\* The map still holds job object o under some key.
InStore(o) == \E id \in DOMAIN scrapingJobs : scrapingJobs[id] = o

Terminal(status) == status \in {"completed", "failed"}

\* Line 321: where the loop goes with currentPage = cp: the navigation of a
\* later page, the container test of the first page, or past the loop.
LoopPc(cp, totalPages) ==
  IF cp <= totalPages THEN (IF cp > 1 THEN "goto" ELSE "evaluate") ELSE "complete"

\* The loop's next iteration (or its exit, which runs on synchronously).
Iterate(o, cp) ==
  LET next == LoopPc(cp, tasks[o].totalPages)
  IN /\ tasks' = [tasks EXCEPT ![o].currentPage = cp, ![o].pc = next]
     /\ running' = IF next = "complete" THEN o ELSE 0

\* An awaited call rejects, or synchronous code throws: control passes to
\* the catch block of startScraping, which runs at once.
Throws(o) ==
  /\ \E message \in ErrorMessages :
       tasks' = [tasks EXCEPT ![o].pc = "catch", ![o].thrown = Some(message)]
  /\ running' = o

\* An awaited browser call of job o settles while the event loop is idle.
Awaiting(o, pc) == running = 0 /\ o \in Objs /\ tasks[o].pc = pc

\* A synchronous continuation of job o is at pc.
Continuing(o, pc) == running = o /\ o \in Objs /\ tasks[o].pc = pc

------------------------------------------------------------------------------
(* The handlers. *)

\* What Date.now() can return to a submission: 0 to the first one, the
\* origin of the clock, and no less than before to a later one.
ClockReadings == IF heap = <<>> THEN {0} ELSE now..(now + MaxElapse)

\* The locals of a startScraping call before its first statement and after
\* its last; jobId stays captured by the eviction timer's callback.
Frame(pc, username, jobId) ==
  [pc |-> pc, username |-> username, jobId |-> jobId, browser |-> FALSE,
   totalPages |-> 1, currentPage |-> 0, thrown |-> None]

\* A submit handler without its username check.
SubmitWithoutValidation(username) ==
  /\ UNCHANGED model1
  /\ running = 0
  /\ Len(heap) < MaxJobs
  /\ \E t \in ClockReadings :
       LET jobId == JobId(t)
           o == Len(heap) + 1
       IN /\ now' = t
          /\ heap' = Append(heap, NewJob)
          /\ scrapingJobs' = (jobId :> o) @@ scrapingJobs
          /\ tasks' = Append(tasks, Frame("start", username, jobId))
          /\ sessions' = Append(sessions,
               [launched |-> 0, closeCalls |-> 0, closed |-> 0,
                scheduled |-> 0, escaped |-> FALSE, control |-> None,
                          parsed |-> 0, lastRead |-> 0])
          /\ running' = o
  /\ resp' = NoResponse /\ event' = NoEvent /\ UNCHANGED <<timers, issued>>

\* Lines 430-449: the submit handler up to the call of startScraping.
Submit(username) ==
  /\ UNCHANGED model1
  /\ running = 0
  /\ IF username = ""
       THEN /\ resp' = [op |-> "submit", req |-> username, code |-> 400,
                        body |-> [message |-> "Username is required."]]
            /\ UNCHANGED <<now, scrapingJobs, heap, tasks, timers, running, issued, sessions>>
            /\ event' = NoEvent
       ELSE /\ Len(heap) < MaxJobs
            /\ \E t \in ClockReadings :
                 LET jobId == JobId(t)
                     o == Len(heap) + 1
                 IN /\ now' = t
                    /\ heap' = Append(heap, NewJob)
                    /\ scrapingJobs' = (jobId :> o) @@ scrapingJobs
                    /\ tasks' = Append(tasks, Frame("start", username, jobId))
                    /\ sessions' = Append(sessions,
                         [launched |-> 0, closeCalls |-> 0, closed |-> 0,
                          scheduled |-> 0, escaped |-> FALSE, control |-> None,
                          parsed |-> 0, lastRead |-> 0])
                    /\ running' = o
            /\ resp' = NoResponse /\ event' = NoEvent /\ UNCHANGED <<timers, issued>>

\* startScraping without its line 284.
StartScrapingKeepsPending(o) ==
  /\ UNCHANGED model1
  /\ Continuing(o, "start")
  /\ tasks' = [tasks EXCEPT ![o].pc = "launch"]
  /\ resp' = [op |-> "submit", req |-> tasks[o].username, code |-> 200,
              body |-> [jobId |-> tasks[o].jobId, status |-> "pending",
                        message |-> "Scraping started"]]
  /\ issued' = Append(issued, tasks[o].jobId)
  /\ running' = 0
  /\ event' = NoEvent
  /\ UNCHANGED <<now, scrapingJobs, heap, timers, sessions>>

\* A submit handler that awaits the launch before it returns.
StartScrapingAwaitsLaunch(o) ==
  /\ UNCHANGED model1
  /\ UNCHANGED model1
  /\ Continuing(o, "start")
  /\ heap' = [heap EXCEPT ![o].status = "in-progress"]
  /\ tasks' = [tasks EXCEPT ![o].browser = TRUE, ![o].pc = "newPage"]
  /\ sessions' = [sessions EXCEPT ![o].launched = @ + 1]
  /\ resp' = [op |-> "submit", req |-> tasks[o].username, code |-> 200,
              body |-> [jobId |-> tasks[o].jobId, status |-> "pending",
                        message |-> "Scraping started"]]
  /\ issued' = Append(issued, tasks[o].jobId)
  /\ running' = 0
  /\ event' = NoEvent
  /\ UNCHANGED <<now, scrapingJobs, timers>>

\* A submit handler that answers before startScraping has run its first
\* statement.
StartScrapingDeferred(o) ==
  /\ UNCHANGED model1
  /\ Continuing(o, "start")
  /\ resp' = [op |-> "submit", req |-> tasks[o].username, code |-> 200,
              body |-> [jobId |-> tasks[o].jobId, status |-> "pending",
                        message |-> "Scraping started"]]
  /\ issued' = Append(issued, tasks[o].jobId)
  /\ running' = 0
  /\ event' = NoEvent
  /\ UNCHANGED <<now, scrapingJobs, heap, tasks, timers, sessions>>

\* Lines 278-290 and 451-455: startScraping runs synchronously inside the
\* submit handler up to its first await (puppeteer.launch) and returns its
\* promise; the handler returns its response.
StartScraping(o) ==
  /\ UNCHANGED model1
  /\ Continuing(o, "start")
  /\ heap' = [heap EXCEPT ![o].status = "in-progress"]
  /\ tasks' = [tasks EXCEPT ![o].pc = "launch"]
  /\ resp' = [op |-> "submit", req |-> tasks[o].username, code |-> 200,
              body |-> [jobId |-> tasks[o].jobId, status |-> "pending",
                        message |-> "Scraping started"]]
  /\ issued' = Append(issued, tasks[o].jobId)
  /\ running' = 0
  /\ event' = NoEvent
  /\ UNCHANGED <<now, scrapingJobs, timers, sessions>>

\* A snapshot that also returns the records of a failed job.
SnapshotPartialData(job) ==
  [status |-> job.status, progress |-> job.progress, totalPages |-> job.totalPages,
   data |-> IF job.status \in {"completed", "failed"} THEN job.data ELSE <<>>,
   profileData |-> job.profileData, error |-> job.error]

\* A snapshot that returns the records whatever the status.
SnapshotAllData(job) ==
  [status |-> job.status, progress |-> job.progress, totalPages |-> job.totalPages,
   data |-> job.data, profileData |-> job.profileData, error |-> job.error]

\* Lines 478-485: the snapshot the status handler returns.
Snapshot(job) ==
  [status |-> job.status, progress |-> job.progress, totalPages |-> job.totalPages,
   data |-> IF job.status = "completed" THEN job.data ELSE <<>>,
   profileData |-> job.profileData, error |-> job.error]

\* A status handler that tests only for a missing jobId: the lookup of an
\* unknown id yields undefined and reading its status throws (a 500).
PollResponseNoHasCheck(jobId) ==
  IF jobId = EmptyId
    THEN [op |-> "poll", req |-> jobId, code |-> 400,
          body |-> [message |-> "Invalid job ID"]]
    ELSE IF Has(jobId)
      THEN [op |-> "poll", req |-> jobId, code |-> 200, body |-> Snapshot(JobOf(jobId))]
      ELSE [op |-> "poll", req |-> jobId, code |-> 500,
            body |-> [message |-> "Internal Server Error"]]

\* Lines 467-486: the status handler.
PollResponse(jobId) ==
  IF jobId = EmptyId \/ ~Has(jobId)
    THEN [op |-> "poll", req |-> jobId, code |-> 400,
          body |-> [message |-> "Invalid job ID"]]
    ELSE [op |-> "poll", req |-> jobId, code |-> 200, body |-> Snapshot(JobOf(jobId))]

Poll(jobId) ==
  /\ UNCHANGED model1
  /\ running = 0
  /\ resp' = PollResponse(jobId)
  /\ event' = NoEvent
  /\ UNCHANGED <<now, scrapingJobs, heap, tasks, timers, running, issued, sessions>>

\* The ids a client polls: none, one never issued, and every id issued.
PollIds == {EmptyId, UnknownId} \cup {tasks[o].jobId : o \in Objs}


------------------------------------------------------------------------------
(* The orchestrator: one action per awaited call. *)

\* Lines 287-290: puppeteer.launch settles.
Launch(o) ==
  /\ UNCHANGED model1
  /\ Awaiting(o, "launch")
  /\ \E ok \in BOOLEAN :
       IF ok
         THEN /\ tasks' = [tasks EXCEPT ![o].browser = TRUE, ![o].pc = "newPage"]
              /\ sessions' = [sessions EXCEPT ![o].launched = @ + 1]
              /\ UNCHANGED running
         ELSE /\ Throws(o)
              /\ UNCHANGED sessions
  /\ resp' = NoResponse /\ event' = NoEvent /\ UNCHANGED <<now, scrapingJobs, heap, timers, issued>>

\* Lines 292-295: browser.newPage and page.setUserAgent settle.
NewPage(o) ==
  /\ UNCHANGED model1
  /\ Awaiting(o, "newPage")
  /\ \E ok \in BOOLEAN :
       IF ok
         THEN tasks' = [tasks EXCEPT ![o].pc = "profile"] /\ UNCHANGED running
         ELSE Throws(o)
  /\ resp' = NoResponse /\ event' = NoEvent /\ UNCHANGED <<now, scrapingJobs, heap, timers, issued, sessions>>

\* A scrapeProfile without its try/catch: a fault inside it reaches the
\* catch block of startScraping.
ScrapeProfilePropagates(o) ==
  /\ UNCHANGED model1
  /\ Awaiting(o, "profile")
  /\ \E ok \in BOOLEAN :
       IF ok
         THEN /\ heap' = [heap EXCEPT ![o].profileData =
                            Some(PageProfile(tasks[o].username))]
              /\ tasks' = [tasks EXCEPT ![o].pc = "gotoFilms"]
              /\ UNCHANGED running
              /\ event' = Event(o, "profile.read")
         ELSE /\ Throws(o)
              /\ UNCHANGED heap
              /\ event' = Event(o, "profile.fault")
  /\ resp' = NoResponse /\ UNCHANGED <<now, scrapingJobs, timers, issued, sessions>>

\* Lines 192-276 and 297: scrapeProfile returns the page's summary, or the
\* degraded one when anything inside it threw; it never throws itself.
ScrapeProfile(o) ==
  /\ UNCHANGED model1
  /\ Awaiting(o, "profile")
  /\ \E ok \in BOOLEAN :
       /\ heap' = [heap EXCEPT ![o].profileData =
                     Some(IF ok THEN PageProfile(tasks[o].username)
                                ELSE DegradedProfile(tasks[o].username))]
       /\ event' = Event(o, IF ok THEN "profile.read" ELSE "profile.fault")
  /\ tasks' = [tasks EXCEPT ![o].pc = "gotoFilms"]
  /\ resp' = NoResponse /\ UNCHANGED <<now, scrapingJobs, timers, running, issued, sessions>>

\* Line 299: the navigation to the listing root settles.
GotoFilms(o) ==
  /\ UNCHANGED model1
  /\ Awaiting(o, "gotoFilms")
  /\ \E ok \in BOOLEAN :
       IF ok
         THEN tasks' = [tasks EXCEPT ![o].pc = "pagination"] /\ UNCHANGED running
         ELSE Throws(o)
  /\ resp' = NoResponse /\ event' = NoEvent /\ UNCHANGED <<now, scrapingJobs, heap, timers, issued, sessions>>

\* Lines 301-321: the wait for ul.grid (its timeout is absorbed), then
\* page.content settles; totalPages is read and the loop is entered.
ReadPagination(o) ==
  /\ UNCHANGED model1
  /\ Awaiting(o, "pagination")
  /\ \/ \E links \in PaginationLists :
          LET totalPages == TotalPagesOf(links)
              next == LoopPc(1, totalPages)
          IN /\ heap' = [heap EXCEPT ![o].totalPages = totalPages]
             /\ tasks' = [tasks EXCEPT ![o].totalPages = totalPages,
                                       ![o].currentPage = 1, ![o].pc = next]
             /\ sessions' = [sessions EXCEPT ![o].control = ControlValue(links)]
             /\ running' = IF next = "complete" THEN o ELSE 0
     \/ Throws(o) /\ UNCHANGED <<heap, sessions>>
  /\ resp' = NoResponse /\ event' = NoEvent /\ UNCHANGED <<now, scrapingJobs, timers, issued>>

\* Lines 322-328: the navigation to page currentPage > 1 settles.
GotoPage(o) ==
  /\ UNCHANGED model1
  /\ Awaiting(o, "goto")
  /\ \E ok \in BOOLEAN :
       IF ok
         THEN /\ tasks' = [tasks EXCEPT ![o].pc = "evaluate"]
              /\ UNCHANGED running
              /\ event' = NoEvent
         ELSE Throws(o) /\ event' = Event(o, "page.fault")
  /\ resp' = NoResponse /\ UNCHANGED <<now, scrapingJobs, heap, timers, issued, sessions>>

\* A container test whose miss is thrown instead of skipped.
EvaluateMissingIsFatal(o) ==
  /\ UNCHANGED model1
  /\ Awaiting(o, "evaluate")
  /\ \E posterList \in {"exists", "missing", "rejects"} :
       CASE posterList = "exists" ->
              /\ tasks' = [tasks EXCEPT ![o].pc = "grid"]
              /\ UNCHANGED running
              /\ event' = NoEvent
         [] posterList = "missing" ->
              Throws(o) /\ event' = Event(o, "page.missing")
         [] posterList = "rejects" ->
              Throws(o) /\ event' = Event(o, "page.fault")
  /\ resp' = NoResponse /\ UNCHANGED <<now, scrapingJobs, heap, timers, issued, sessions>>

\* A container test whose miss makes the loop try the same page again.
EvaluateRetriesMissingPage(o) ==
  /\ UNCHANGED model1
  /\ Awaiting(o, "evaluate")
  /\ \E posterList \in {"exists", "missing", "rejects"} :
       CASE posterList = "exists" ->
              /\ tasks' = [tasks EXCEPT ![o].pc = "grid"]
              /\ UNCHANGED running
              /\ event' = NoEvent
         [] posterList = "missing" ->
              /\ Iterate(o, tasks[o].currentPage)
              /\ event' = Event(o, "page.missing")
         [] posterList = "rejects" ->
              Throws(o) /\ event' = Event(o, "page.fault")
  /\ resp' = NoResponse /\ UNCHANGED <<now, scrapingJobs, heap, timers, issued, sessions>>

\* A container test whose miss counts the page in progress before the loop
\* continues.
EvaluateMissingCountsPage(o) ==
  /\ UNCHANGED model1
  /\ Awaiting(o, "evaluate")
  /\ \E posterList \in {"exists", "missing", "rejects"} :
       CASE posterList = "exists" ->
              /\ tasks' = [tasks EXCEPT ![o].pc = "grid"]
              /\ UNCHANGED <<running, heap>>
              /\ event' = NoEvent
         [] posterList = "missing" ->
              /\ heap' = [heap EXCEPT ![o].progress =
                            [num |-> tasks[o].currentPage, den |-> tasks[o].totalPages]]
              /\ Iterate(o, tasks[o].currentPage + 1)
              /\ event' = Event(o, "page.missing")
         [] posterList = "rejects" ->
              Throws(o) /\ UNCHANGED heap /\ event' = Event(o, "page.fault")
  /\ resp' = NoResponse /\ UNCHANGED <<now, scrapingJobs, timers, issued, sessions>>

\* Lines 331-338: page.evaluate settles: the container is there, or it is
\* missing and the loop continues with the next page, or the call rejects.
Evaluate(o) ==
  /\ UNCHANGED model1
  /\ Awaiting(o, "evaluate")
  /\ \E posterList \in {"exists", "missing", "rejects"} :
       CASE posterList = "exists" ->
              /\ tasks' = [tasks EXCEPT ![o].pc = "grid"]
              /\ UNCHANGED running
              /\ event' = NoEvent
         [] posterList = "missing" ->
              /\ Iterate(o, tasks[o].currentPage + 1)
              /\ event' = Event(o, "page.missing")
         [] posterList = "rejects" ->
              Throws(o) /\ event' = Event(o, "page.fault")
  /\ resp' = NoResponse /\ UNCHANGED <<now, scrapingJobs, heap, timers, issued, sessions>>

\* A page loop that sets progress to totalPages / currentPage.
ReadGridInvertedProgress(o) ==
  /\ UNCHANGED model1
  /\ Awaiting(o, "grid")
  /\ \E items \in ItemLists :
       LET cp == tasks[o].currentPage
           data == heap[o].data \o Pushed(items, cp)
       IN IF FirstThrow(items) # 0
            THEN /\ heap' = [heap EXCEPT ![o].data = data]
                 /\ Throws(o)
                 /\ sessions' = [sessions EXCEPT ![o].parsed = @ + OkItems(items)]
                 /\ event' = Event(o, "page.fault")
            ELSE /\ heap' = [heap EXCEPT ![o].data = data,
                               ![o].progress = [num |-> tasks[o].totalPages, den |-> cp]]
                 /\ tasks' = [tasks EXCEPT ![o].pc = "delay"]
                 /\ UNCHANGED running
                 /\ sessions' = [sessions EXCEPT ![o].parsed = @ + OkItems(items),
                                                  ![o].lastRead = cp]
                 /\ event' = NoEvent
  /\ resp' = NoResponse /\ UNCHANGED <<now, scrapingJobs, timers, issued>>

\* A page loop that puts the records of a page before those it has.
ReadGridPrepends(o) ==
  /\ UNCHANGED model1
  /\ Awaiting(o, "grid")
  /\ \E items \in ItemLists :
       LET cp == tasks[o].currentPage
           data == Pushed(items, cp) \o heap[o].data
       IN IF FirstThrow(items) # 0
            THEN /\ heap' = [heap EXCEPT ![o].data = data]
                 /\ Throws(o)
                 /\ sessions' = [sessions EXCEPT ![o].parsed = @ + OkItems(items)]
                 /\ event' = Event(o, "page.fault")
            ELSE /\ heap' = [heap EXCEPT ![o].data = data,
                               ![o].progress = [num |-> cp, den |-> tasks[o].totalPages]]
                 /\ tasks' = [tasks EXCEPT ![o].pc = "delay"]
                 /\ UNCHANGED running
                 /\ sessions' = [sessions EXCEPT ![o].parsed = @ + OkItems(items),
                                                  ![o].lastRead = cp]
                 /\ event' = NoEvent
  /\ resp' = NoResponse /\ UNCHANGED <<now, scrapingJobs, timers, issued>>

\* A page loop that keeps only the records of the page it has just read.
ReadGridReplacesData(o) ==
  /\ UNCHANGED model1
  /\ Awaiting(o, "grid")
  /\ \E items \in ItemLists :
       LET cp == tasks[o].currentPage
           data == Pushed(items, cp)
       IN IF FirstThrow(items) # 0
            THEN /\ heap' = [heap EXCEPT ![o].data = data]
                 /\ Throws(o)
                 /\ sessions' = [sessions EXCEPT ![o].parsed = @ + OkItems(items)]
                 /\ event' = Event(o, "page.fault")
            ELSE /\ heap' = [heap EXCEPT ![o].data = data,
                               ![o].progress = [num |-> cp, den |-> tasks[o].totalPages]]
                 /\ tasks' = [tasks EXCEPT ![o].pc = "delay"]
                 /\ UNCHANGED running
                 /\ sessions' = [sessions EXCEPT ![o].parsed = @ + OkItems(items),
                                                  ![o].lastRead = cp]
                 /\ event' = NoEvent
  /\ resp' = NoResponse /\ UNCHANGED <<now, scrapingJobs, timers, issued>>

\* A page loop that holds the event loop for the 500 ms between two pages.
ReadGridBusyWaits(o) ==
  /\ UNCHANGED model1
  /\ Awaiting(o, "grid")
  /\ \E items \in ItemLists :
       LET cp == tasks[o].currentPage
           data == heap[o].data \o Pushed(items, cp)
       IN IF FirstThrow(items) # 0
            THEN /\ heap' = [heap EXCEPT ![o].data = data]
                 /\ Throws(o)
                 /\ sessions' = [sessions EXCEPT ![o].parsed = @ + OkItems(items)]
                 /\ event' = Event(o, "page.fault")
            ELSE /\ heap' = [heap EXCEPT ![o].data = data,
                               ![o].progress = [num |-> cp, den |-> tasks[o].totalPages]]
                 /\ tasks' = [tasks EXCEPT ![o].pc = "delay"]
                 /\ running' = o
                 /\ sessions' = [sessions EXCEPT ![o].parsed = @ + OkItems(items),
                                                  ![o].lastRead = cp]
                 /\ event' = NoEvent
  /\ resp' = NoResponse /\ UNCHANGED <<now, scrapingJobs, timers, issued>>

\* Lines 341-408: page.$eval settles with the container's markup; the items
\* are parsed and pushed, progress is set and the inter-page delay starts.
\* An item whose callback throws ends the page there.
ReadGrid(o) ==
  /\ UNCHANGED model1
  /\ Awaiting(o, "grid")
  /\ \E items \in ItemLists :
       LET cp == tasks[o].currentPage
           data == heap[o].data \o Pushed(items, cp)
       IN IF FirstThrow(items) # 0
            THEN /\ heap' = [heap EXCEPT ![o].data = data]
                 /\ Throws(o)
                 /\ sessions' = [sessions EXCEPT ![o].parsed = @ + OkItems(items)]
                 /\ event' = Event(o, "page.fault")
            ELSE /\ heap' = [heap EXCEPT ![o].data = data,
                               ![o].progress = [num |-> cp, den |-> tasks[o].totalPages]]
                 /\ tasks' = [tasks EXCEPT ![o].pc = "delay"]
                 /\ UNCHANGED running
                 /\ sessions' = [sessions EXCEPT ![o].parsed = @ + OkItems(items),
                                                  ![o].lastRead = cp]
                 /\ event' = NoEvent
  /\ resp' = NoResponse /\ UNCHANGED <<now, scrapingJobs, timers, issued>>

\* Lines 350-404: the callback of the item loop on one element of the page
\* that job o is reading: it returns without a data container, a name or a
\* slug, and pushes the element's record otherwise.
EachItem(o, el) ==
  /\ UNCHANGED model1
  /\ Awaiting(o, "grid")
  /\ Len(heap[o].data) < MaxItems
  /\ IF ~el.container \/ el.name \in {None, Some(<<>>)} \/ el.slug \in {None, Some(<<>>)}
       THEN UNCHANGED <<heap, sessions>>
       ELSE /\ heap' = [heap EXCEPT ![o].data = Append(@, FilmData(el))]
            /\ sessions' = [sessions EXCEPT ![o].parsed = @ + 1]
  /\ event' = ItemEvent(o, el)
  /\ resp' = NoResponse /\ UNCHANGED <<now, scrapingJobs, tasks, timers, running, issued>>

\* Lines 408-409 and 321: the 500 ms timer fires; next iteration.
Delay(o) ==
  /\ UNCHANGED model1
  /\ Awaiting(o, "delay")
  /\ Iterate(o, tasks[o].currentPage + 1)
  /\ resp' = NoResponse /\ event' = NoEvent /\ UNCHANGED <<now, scrapingJobs, heap, timers, issued, sessions>>

\* Lines 421-424: setTimeout of the eviction, keyed by the task's jobId and
\* due one retention window after the event loop's time; the function
\* returns and its locals are gone.
ScheduleEviction(o) ==
  /\ timers' = (o :> now + Retention) @@ timers
  /\ tasks' = [tasks EXCEPT ![o] = Frame("done", @.username, @.jobId)]

\* A finally block that schedules the eviction and never closes the browser.
FinallyLeaksBrowser(o) ==
  /\ ScheduleEviction(o)
  /\ sessions' = [sessions EXCEPT ![o].scheduled = @ + 1]
  /\ running' = 0

\* Lines 419-424: the finally block up to its await: with a browser,
\* browser.close is called and awaited; without one the eviction is
\* scheduled at once and the task ends.
Finally(o) ==
  /\ IF tasks[o].browser
       THEN /\ sessions' = [sessions EXCEPT ![o].closeCalls = @ + 1]
            /\ tasks' = [tasks EXCEPT ![o].pc = "closing"]
            /\ UNCHANGED timers
       ELSE /\ ScheduleEviction(o)
            /\ sessions' = [sessions EXCEPT ![o].scheduled = @ + 1]
  /\ running' = 0

\* Lines 411-414 and 419-420: past the loop, then the finally block.
Complete(o) ==
  /\ UNCHANGED model1
  /\ Continuing(o, "complete")
  /\ heap' = [heap EXCEPT ![o].status = "completed"]
  /\ Finally(o)
  /\ resp' = NoResponse /\ event' = NoEvent /\ UNCHANGED <<now, scrapingJobs, issued>>

\* A catch block that also resets the records.
CatchClearsData(o) ==
  /\ UNCHANGED model1
  /\ Continuing(o, "catch")
  /\ heap' = [heap EXCEPT ![o].status = "failed", ![o].error = tasks[o].thrown,
                          ![o].data = <<>>]
  /\ Finally(o)
  /\ resp' = NoResponse /\ event' = NoEvent /\ UNCHANGED <<now, scrapingJobs, issued>>

\* Lines 415-420: the catch block, then the finally block.
Catch(o) ==
  /\ UNCHANGED model1
  /\ Continuing(o, "catch")
  /\ heap' = [heap EXCEPT ![o].status = "failed", ![o].error = tasks[o].thrown]
  /\ Finally(o)
  /\ resp' = NoResponse /\ event' = NoEvent /\ UNCHANGED <<now, scrapingJobs, issued>>

\* A finally block that records a rejected browser.close as the job's failure.
CloseSettlesRecordsFailure(o) ==
  /\ UNCHANGED model1
  /\ Awaiting(o, "closing")
  /\ \E ok \in BOOLEAN :
       IF ok
         THEN /\ ScheduleEviction(o)
              /\ sessions' = [sessions EXCEPT ![o].closed = @ + 1, ![o].scheduled = @ + 1]
              /\ UNCHANGED heap
         ELSE /\ \E message \in ErrorMessages :
                   heap' = [heap EXCEPT ![o].status = "failed",
                                        ![o].error = Some(message)]
              /\ ScheduleEviction(o)
              /\ sessions' = [sessions EXCEPT ![o].scheduled = @ + 1]
  /\ resp' = NoResponse /\ event' = NoEvent /\ UNCHANGED <<now, scrapingJobs, running, issued>>

\* Lines 420-424: browser.close settles.  When it resolves the eviction is
\* scheduled; when it rejects the rejection leaves the finally block and
\* the promise of startScraping rejects with nothing scheduled.
CloseSettles(o) ==
  /\ UNCHANGED model1
  /\ Awaiting(o, "closing")
  /\ \E ok \in BOOLEAN :
       IF ok
         THEN /\ ScheduleEviction(o)
              /\ sessions' = [sessions EXCEPT ![o].closed = @ + 1, ![o].scheduled = @ + 1]
         ELSE /\ sessions' = [sessions EXCEPT ![o].escaped = TRUE]
              /\ tasks' = [tasks EXCEPT ![o] = Frame("done", @.username, @.jobId)]
              /\ UNCHANGED timers
  /\ resp' = NoResponse /\ event' = NoEvent /\ UNCHANGED <<now, scrapingJobs, heap, running, issued>>

\* Lines 421-423: an eviction timer fires: the clock has reached the time
\* it is due, and no timer due earlier is still waiting.
Evict(o) ==
  /\ UNCHANGED model1
  /\ running = 0
  /\ o \in DOMAIN timers
  /\ \A p \in DOMAIN timers : timers[p] >= timers[o]
  /\ now' = IF now >= timers[o] THEN now ELSE timers[o]
  /\ scrapingJobs' = MapDelete(scrapingJobs, tasks[o].jobId)
  /\ timers' = MapDelete(timers, o)
  /\ resp' = NoResponse /\ event' = NoEvent /\ UNCHANGED <<heap, tasks, running, issued, sessions>>

------------------------------------------------------------------------------

Next ==
  \/ \E username \in Usernames : Submit(username)
  \/ \E jobId \in PollIds : Poll(jobId)
  \/ \E o \in Objs :
       \/ StartScraping(o)
       \/ Launch(o)
       \/ NewPage(o)
       \/ ScrapeProfile(o)
       \/ GotoFilms(o)
       \/ ReadPagination(o)
       \/ GotoPage(o)
       \/ Evaluate(o)
       \/ ReadGrid(o)
       \/ Delay(o)
       \/ Complete(o)
       \/ Catch(o)
       \/ CloseSettles(o)
       \/ Evict(o)

Spec == Init /\ [][Next]_vars

\* Lines 278-425: the steps of the startScraping call of job o.
Task(o) ==
  \/ StartScraping(o)
  \/ Launch(o)
  \/ NewPage(o)
  \/ ScrapeProfile(o)
  \/ GotoFilms(o)
  \/ ReadPagination(o)
  \/ GotoPage(o)
  \/ Evaluate(o)
  \/ ReadGrid(o)
  \/ Delay(o)
  \/ Complete(o)
  \/ Catch(o)
  \/ CloseSettles(o)

\* The event loop runs a continuation that is ready, and every awaited
\* call settles: page.goto and page.waitForSelector within the timeout they
\* are given (lines 195-197, 299-301, 324-327), the 500 ms timer when it is
\* due (line 408), and the calls given no timeout (lines 287-295, 303,
\* 331-343, 420) by resolving or rejecting.
FairSpec == Spec /\ \A o \in 1..MaxJobs : WF_vars(Task(o))

\* The state in which the first job, submitted for alice at time 0, has
\* launched its browser, read the profile and a listing root without
\* pagination control, and found the container of page 1.
ParseInit ==
  /\ now = 0
  /\ scrapingJobs = (JobId(0) :> 1)
  /\ heap = <<[NewJob EXCEPT !.status = "in-progress",
                             !.profileData = Some(PageProfile("alice"))]>>
  /\ tasks = <<[Frame("grid", "alice", JobId(0)) EXCEPT !.browser = TRUE,
                                                        !.currentPage = 1]>>
  /\ timers = EmptyMap
  /\ running = 0
  /\ resp = NoResponse
  /\ issued = <<JobId(0)>>
  /\ sessions = <<[launched |-> 1, closeCalls |-> 0, closed |-> 0,
                   scheduled |-> 0, escaped |-> FALSE, control |-> None,
                   parsed |-> 0, lastRead |-> 0]>>
  /\ event = NoEvent
  /\ modelInstance = None
  /\ calls = <<>>

\* The item loop of that page: the callback on an element.
ParseNext == \E el \in GridItems : EachItem(1, el)

ParseSpec == ParseInit /\ [][ParseNext]_vars

------------------------------------------------------------------------------
(***************************************************************************)
(* src/routes/api/model1.js.  POST / fits the network on the ratings of    *)
(* the request and answers with the films the network scores highest.  The *)
(* network is built once and kept in the module variable modelInstance     *)
(* (lines 14, 45-82).  TensorFlow.js is the environment: an awaited        *)
(* model.fit or predictions.data() resolves or rejects, and the validation *)
(* loss an epoch reports is whatever the library computed.  The weights of *)
(* the network are not computed; they are named by what produced them, the *)
(* sequence of fits the network has gone through since it was built.       *)
(***************************************************************************)
MaxCalls == 2       \* requests the route is sent
MaxEpochs == 6      \* stands for the 100 of the training loop (line 226)

\* Line 223.
PatienceLimit == 5

\* The userRatings of a request body: the ids of the rated films.  The other
\* fields of the body keep their defaults (lines 445-449).
Ratings == {<<>>, <<1>>, <<2>>}

Bodies == [userRatings : Ratings]

NoReply == [code |-> 0, send |-> None]

\* The scraper's variables, which no step of this route touches.
scraper ==
  <<now, scrapingJobs, heap, tasks, timers, running, resp, issued, sessions, event>>

\* Lines 50-78: tf.sequential() with its layers, compiled; no fit yet.
Sequential == [fits |-> <<>>]

\* Lines 45-82: the cached network if there is one, else a new one, cached.
buildModel == IF modelInstance # None THEN modelInstance ELSE Some(Sequential)

\* Line 227: one epoch of model.fit on the tensors built from userRatings
\* (lines 156-218) moves the weights of the network it is given.
Fit(model, userRatings) == [model EXCEPT !.fits = Append(@, userRatings)]

\* Lines 257-359: the unwatched films (lines 273, 284-290) with the scores
\* model.predict gives them (lines 342-343, 350-356), best first; the score
\* is part of each film returned (line 139).
recommendMovies(model, userRatings) ==
  [scoredBy |-> model.fits, watched |-> {userRatings[i] : i \in DOMAIN userRatings}]

\* Are all earlier requests answered?
Quiet == \A c \in DOMAIN calls : calls[c].pc = "done"

\* Lines 441-478 and 147-227: the handler up to the first await that waits
\* for the library.  A body without ratings is answered 400 (lines 452-454);
\* otherwise the network is taken from buildModel (line 469) and trainModel
\* starts its first epoch.  (quiet is a ghost: was the server idle?)
Model1Post(body) ==
  /\ Len(calls) < MaxCalls
  /\ IF Len(body.userRatings) = 0
     THEN /\ calls' = Append(calls,
                 [body |-> body, pc |-> "done", epoch |-> 0, patienceCounter |-> 0,
                  quiet |-> Quiet,
                  reply |-> [code |-> 400, send |-> Some("No user data")]])
          /\ UNCHANGED modelInstance
     ELSE /\ modelInstance' = buildModel
          /\ calls' = Append(calls,
                 [body |-> body, pc |-> "fit", epoch |-> 0, patienceCounter |-> 0,
                  quiet |-> Quiet, reply |-> NoReply])
  /\ UNCHANGED scraper

\* Lines 226-246 and 481-489, 342-343: model.fit resolves.  The epoch either
\* improved the validation loss or did not (lines 235-241); the loop goes on
\* to the next fit, or ends by the patience limit or the epoch bound, and
\* then recommendMovies predicts with the weights as they are now.
FitResolves(c) ==
  /\ c \in DOMAIN calls
  /\ calls[c].pc = "fit"
  /\ \E improved \in BOOLEAN :
       LET call == calls[c]
           model == Fit(modelInstance[1], call.body.userRatings)
           patience == IF improved THEN 0 ELSE call.patienceCounter + 1
           stop == \/ ~improved /\ patience >= PatienceLimit
                   \/ call.epoch + 1 >= MaxEpochs
       IN /\ modelInstance' = Some(model)
          /\ calls' = [calls EXCEPT ![c] =
                 IF stop
                 THEN [call EXCEPT !.pc = "data", !.epoch = @ + 1,
                                   !.patienceCounter = patience,
                                   !.reply = [code |-> 0, send |->
                                     Some(recommendMovies(model, call.body.userRatings))]]
                 ELSE [call EXCEPT !.epoch = @ + 1, !.patienceCounter = patience]]
  /\ UNCHANGED scraper

\* Lines 343-356, 491: predictions.data() resolves and the handler returns
\* the recommendations, which fastify sends with status 200.
DataResolves(c) ==
  /\ c \in DOMAIN calls
  /\ calls[c].pc = "data"
  /\ calls' = [calls EXCEPT ![c] = [@ EXCEPT !.pc = "done", !.reply.code = 200]]
  /\ UNCHANGED <<scraper, modelInstance>>

\* Lines 492-502: the awaited call rejects (model.fit does when the network
\* is in the middle of another fit) and the handler answers 500.
Model1Catch(c) ==
  /\ c \in DOMAIN calls
  /\ calls[c].pc \in {"fit", "data"}
  /\ calls' = [calls EXCEPT ![c] =
         [@ EXCEPT !.pc = "done",
                   !.reply = [code |-> 500,
                              send |-> Some("Failed to generate recommendations")]]]
  /\ UNCHANGED <<scraper, modelInstance>>

Model1Next ==
  \/ \E body \in Bodies : Model1Post(body)
  \/ \E c \in 1..MaxCalls :
       \/ FitResolves(c)
       \/ DataResolves(c)
       \/ Model1Catch(c)

Model1Spec == Init /\ [][Model1Next]_vars

------------------------------------------------------------------------------
(* The claims. *)

\* The job the last poll asked for.
Polled == JobOf(resp.req)
PollOk == resp.op = "poll" /\ resp.code = 200

\* C1: every submission with a non-empty username returns a jobId that no
\* earlier submission returned, with status "pending".  Two submissions that
\* read the same millisecond get the same id.
C1_FreshJobId ==
  /\ \A i, j \in 1..Len(issued) : i # j => issued[i] # issued[j]
  /\ (resp.op = "submit" /\ resp.code = 200 => resp.body.status = "pending")

\* C2: the status of a job object changes only from pending to in-progress
\* and from in-progress to completed or failed.
C2_StatusTransitions ==
  [][\A o \in Objs :
       heap'[o].status # heap[o].status =>
         <<heap[o].status, heap'[o].status>> \in
           {<<"pending", "in-progress">>, <<"in-progress", "completed">>,
            <<"in-progress", "failed">>}]_vars

\* C2's case: one job has completed and another has failed.
C2_Witness ==
  \E o, p \in Objs : heap[o].status = "completed" /\ heap[p].status = "failed"

\* C3: a poll that returns "completed" returns progress 1 and the totalPages
\* the pagination control showed (1 without a readable control).
C3_CompletedPoll ==
  PollOk /\ resp.body.status = "completed" =>
    LET control == sessions[scrapingJobs[resp.req]].control
    IN /\ resp.body.progress.num = resp.body.progress.den
       /\ resp.body.totalPages = IF control = None THEN 1 ELSE control[1]

\* C4 as claimed: the poll of a failed job returns the records appended
\* before the failure and a non-null error.
C4_FailedPollReturnsData ==
  PollOk /\ resp.body.status = "failed" =>
    resp.body.data = Polled.data /\ resp.body.error # None

\* C4, amended: the poll of a failed job that is still in the map returns
\* 200 with status failed, a non-null error and an empty data array.
C4_FailedPoll ==
  resp.op = "poll" /\ Has(resp.req) /\ Polled.status = "failed" =>
    /\ resp.code = 200
    /\ resp.body.status = "failed"
    /\ resp.body.error # None
    /\ resp.body.data = <<>>

\* C4's case: a failed job that holds records was polled.
C4_Witness ==
  PollOk /\ resp.body.status = "failed" /\ Polled.data # <<>>

\* C5: a poll returns the job's records, in order, when it returns status
\* completed, and an empty data array with any other status.
C5_DataOnlyWhenCompleted ==
  PollOk =>
    /\ resp.body.status = Polled.status
    /\ resp.body.data = IF resp.body.status = "completed" THEN Polled.data ELSE <<>>

\* C5's case: a job in progress that already holds records was polled.
C5_Witness ==
  PollOk /\ resp.body.status = "in-progress" /\ Polled.data # <<>>

\* C6: a job that reached completed or failed is removed from the map after
\* the retention window, on every exit path: once its orchestrator has
\* ended, it is gone from the map or its eviction timer is waiting.
C6_EvictionPending ==
  \A o \in Objs :
    tasks[o].pc = "done" /\ Terminal(heap[o].status) =>
      o \in DOMAIN timers \/ ~InStore(o)

\* C7: the step that makes a job failed sets a non-null error and leaves
\* the job's records as they were.
C7_FailureKeepsData ==
  [][\A o \in Objs :
       heap[o].status # "failed" /\ heap'[o].status = "failed" =>
         /\ heap'[o].error # None
         /\ heap'[o].data = heap[o].data]_vars

\* C7's case: a job failed while it held records.
C7_Witness ==
  \E o \in Objs :
    heap[o].status = "failed" /\ heap[o].error # None /\ heap[o].data # <<>>

\* C8: a poll of an id that is no key of the map returns 400 and changes
\* neither the map nor any job object.
C8_UnknownPoll ==
  [][resp'.op = "poll" /\ ~Has(resp'.req) =>
       resp'.code = 400 /\ UNCHANGED <<scrapingJobs, heap, timers>>]_vars

\* C8's case: an id that a submission returned was polled after its
\* eviction and got 400.
C8_Witness ==
  /\ resp.op = "poll" /\ resp.code = 400
  /\ \E i \in 1..Len(issued) : issued[i] = resp.req

\* C9: the eviction is scheduled only after every acquired browser has been
\* closed, at most once, and exactly once by the time the orchestrator ends.
C9_CloseThenEvictOnce ==
  \A o \in Objs :
    /\ sessions[o].scheduled <= 1
    /\ (sessions[o].scheduled = 1 => sessions[o].closeCalls = sessions[o].launched)
    /\ (tasks[o].pc = "done" => sessions[o].scheduled = 1)

\* C10: a job launches at most one browser, never closes more than it
\* launched, and has called close exactly once on a launched browser by the
\* time its orchestrator ends.
C10_OneSessionClosedOnce ==
  \A o \in Objs :
    /\ sessions[o].launched <= 1
    /\ sessions[o].closeCalls <= sessions[o].launched
    /\ (tasks[o].pc = "done" => sessions[o].closeCalls = sessions[o].launched)

\* C10's case: a job that failed after it launched its browser has ended
\* with the browser closed once.
C10_Witness ==
  \E o \in Objs :
    /\ tasks[o].pc = "done" /\ heap[o].status = "failed"
    /\ sessions[o].launched = 1 /\ sessions[o].closeCalls = 1


\* C11: the progress of every job object is a fraction within [0, 1] in
\* every state, and no step lowers it, whatever the pagination control read.
C11_ProgressBoundedMonotone ==
  [][/\ \A o \in 1..Len(heap') :
          LET q == heap'[o].progress
          IN q.den > 0 /\ 0 <= q.num /\ q.num <= q.den
     /\ \A o \in Objs :
          LET p == heap[o].progress
              q == heap'[o].progress
          IN p.num * q.den <= q.num * p.den]_vars

\* C11's case: under a control that read 2 the progress of a job has risen
\* past page 1 to its last page.
C11_Witness ==
  \E o \in Objs :
    /\ sessions[o].control = Some(2)
    /\ heap[o].progress = [num |-> 2, den |-> 2]
    /\ tasks[o].pc = "delay"

\* C12: the 200 response of a submission is produced while the job's
\* orchestrator is still waiting for its first browser call, the launch:
\* no browser has been launched and nothing has been read for that job.
C12_SubmitDoesNotWait ==
  (resp.op = "submit" /\ resp.code = 200) =>
    LET o == Len(heap)
    IN /\ resp.body = [jobId |-> tasks[o].jobId, status |-> "pending",
                       message |-> "Scraping started"]
       /\ tasks[o].pc = "launch" /\ ~tasks[o].browser
       /\ sessions[o].launched = 0
       /\ heap[o].profileData = None /\ heap[o].data = <<>>

\* C12's case: a submission is answered while an earlier job is in the
\* middle of its crawl.
C12_Witness ==
  /\ resp.op = "submit" /\ resp.code = 200
  /\ Len(heap) = 2 /\ tasks[1].pc = "grid" /\ tasks[2].pc = "launch"

\* C13: a submission with an empty username is answered 400 and the step
\* that answers it leaves the store, the job objects, the orchestrator
\* tasks and the timers as they were.
C13_EmptyUsernameRejected ==
  [][(resp'.op = "submit" /\ resp'.req = "") =>
       /\ resp'.code = 400
       /\ UNCHANGED <<scrapingJobs, heap, tasks, timers, running, issued, sessions>>]_vars

\* C13's case: an empty username was rejected while the store held a job.
C13_Witness ==
  /\ resp.op = "submit" /\ resp.req = "" /\ resp.code = 400
  /\ DOMAIN scrapingJobs # {} /\ \E o \in Objs : tasks[o].pc = "evaluate"


\* C14: a step in which the profile extraction of a job throws leaves the
\* job in-progress, stores the degraded summary (displayName and username
\* equal to the submitted username, the four stats 0) and passes on to the
\* navigation to the listing root.
C14_ProfileFaultAbsorbed ==
  [][event'.what = "profile.fault" =>
       LET o == event'.job
           username == tasks[o].username
           profile == heap'[o].profileData[1]
       IN /\ heap'[o].status = "in-progress"
          /\ heap'[o].error = None
          /\ tasks'[o].pc = "gotoFilms" /\ tasks'[o].thrown = None
          /\ heap'[o].profileData # None
          /\ profile.displayName = username /\ profile.username = username
          /\ profile.stats = [totalFilms |-> 0, filmsThisYear |-> 0,
                              following |-> 0, followers |-> 0]]_vars

\* C14's case: a job whose profile extraction threw has completed with
\* records and the degraded summary.
C14_Witness ==
  \E o \in Objs :
    /\ heap[o].status = "completed" /\ heap[o].data # <<>>
    /\ heap[o].profileData = Some(DegradedProfile(tasks[o].username))


\* C15: a fault of one listing page (its navigation rejects, its container
\* test rejects, or reading it throws) does not pass control to the catch
\* block that fails the job: the loop goes on.  In the code every such fault
\* reaches the catch block of startScraping.
C15_PageFaultNotFatal ==
  [][event'.what = "page.fault" =>
       /\ tasks'[event'.job].pc # "catch"
       /\ tasks'[event'.job].thrown = None]_vars

\* C16: no orchestrator task ends with an exception that escaped it.  A
\* rejected browser.close in the finally block does escape.
C16_NothingEscapes ==
  \A o \in Objs : ~sessions[o].escaped

\* C18: no step changes a field of a job object whose status is completed
\* or failed; the store may only drop it.
C18_TerminalJobFrozen ==
  [][\A o \in Objs :
       Terminal(heap[o].status) =>
         /\ heap'[o] = heap[o]
         /\ \A id \in DOMAIN scrapingJobs' :
              scrapingJobs'[id] = o => id \in DOMAIN scrapingJobs /\ scrapingJobs[id] = o]_vars

\* C18's case: a completed job with records went through the close of its
\* browser, which rejected, and its task has ended.
C18_Witness ==
  \E o \in Objs :
    /\ heap[o].status = "completed" /\ heap[o].data # <<>>
    /\ tasks[o].pc = "done" /\ sessions[o].closeCalls = 1 /\ sessions[o].closed = 0

\* C19: a step that finds the listing container missing on page k changes
\* no field of the job (no record, no failure) and moves the loop to page
\* k + 1, or past the loop when k is the last page.
C19_MissingContainerSkipsPage ==
  [][event'.what = "page.missing" =>
       LET o == event'.job
           k == tasks[o].currentPage
       IN /\ heap'[o] = heap[o]
          /\ tasks'[o].thrown = None
          /\ tasks'[o].currentPage = k + 1
          /\ tasks'[o].pc = IF k < tasks[o].totalPages THEN "goto" ELSE "complete"]_vars

\* C19's case: page 1 had no container and page 2 gave a record.
C19_Witness ==
  \E o \in Objs :
    /\ heap[o].totalPages = 2 /\ Len(heap[o].data) = 1
    /\ heap[o].data[1].page = 2 /\ heap[o].progress = [num |-> 2, den |-> 2]

\* C20: the records of a job are in page order; while page k is navigated
\* to, tested or read every record is of a page before k; and the loop moves
\* from page k to page k + 1 only.
C20_PagesInOrder ==
  [][\A o \in Objs :
       LET data == heap'[o].data
           PagePcs == {"goto", "evaluate", "grid"}
       IN /\ \A i, j \in 1..Len(data) :
               i < j => \/ data[i].page < data[j].page
                        \/ /\ data[i].page = data[j].page
                           /\ data[i].index < data[j].index
          /\ tasks'[o].pc \in PagePcs =>
               /\ tasks'[o].currentPage \in 1..tasks'[o].totalPages
               /\ \A i \in 1..Len(data) : data[i].page < tasks'[o].currentPage
          /\ (tasks[o].pc \in PagePcs \cup {"delay"} /\ tasks'[o].pc \in PagePcs) =>
               tasks'[o].currentPage \in {tasks[o].currentPage, tasks[o].currentPage + 1}
          /\ (tasks[o].pc = "delay" /\ tasks'[o].pc \in PagePcs) =>
               tasks'[o].currentPage = tasks[o].currentPage + 1]_vars

\* C20's case: a job holds a record of page 1 followed by one of page 2.
C20_Witness ==
  \E o \in Objs :
    /\ Len(heap[o].data) = 2
    /\ heap[o].data[1].page = 1 /\ heap[o].data[2].page = 2


\* C17: under fair scheduling every submitted job eventually has status
\* completed or failed: again and again every job submitted so far has ended.
C17_EveryJobEnds ==
  []<>(\A o \in Objs : Terminal(heap[o].status))

\* C17's case: every job that could be submitted has ended, one of them
\* failed by a navigation that timed out on its second page.
C17_Witness ==
  /\ Len(heap) = MaxJobs
  /\ \A o \in Objs : Terminal(heap[o].status) /\ tasks[o].pc = "done"
  /\ \E o \in Objs :
       /\ heap[o].status = "failed" /\ heap[o].totalPages = 2
       /\ heap[o].progress = [num |-> 1, den |-> 2]
       /\ heap[o].error = Some("Navigation timeout of 60000 ms exceeded")


\* C21: no step shortens the data of a job object, and the data of a
\* completed job has as many records as the pages whose container was
\* present had items with a name and a link.
C21_DataLength ==
  [][\A o \in Objs :
       /\ Len(heap'[o].data) >= Len(heap[o].data)
       /\ heap'[o].status = "completed" =>
            Len(heap'[o].data) = sessions'[o].parsed]_vars

\* C21's case: a job completed with the records of two pages.
C21_Witness ==
  \E o \in Objs :
    /\ heap[o].status = "completed" /\ sessions[o].lastRead = 2
    /\ sessions[o].parsed = 2 /\ Len(heap[o].data) = 2


\* C22: the navigation to a later listing page starts only from the
\* inter-page delay.  After a page without container the code continues
\* with the next navigation at once.
C22_DelayBeforeNavigation ==
  [][\A o \in Objs :
       (tasks'[o].pc = "goto" /\ tasks[o].pc # "goto") => tasks[o].pc = "delay"]_vars

\* C23: while a job waits in its inter-page delay it does not hold the
\* event loop; when the loop is idle every poll and every submission is
\* enabled, and so is the step of every other job that waits for a call to
\* settle; when another job's continuation runs, that step is enabled.
C23_DelayBlocksNothing ==
  \A o \in Objs :
    tasks[o].pc = "delay" =>
      /\ running # o
      /\ running = 0 =>
           /\ \A jobId \in PollIds : ENABLED Poll(jobId)
           /\ ENABLED Submit("")
           /\ Len(heap) < MaxJobs => ENABLED Submit("alice")
           /\ \A p \in Objs \ {o} : tasks[p].pc # "done" => ENABLED Task(p)
      /\ \A p \in Objs \ {o} : running = p => ENABLED Task(p)

\* C23's case: a job is in its delay while another one waits for its
\* browser to launch and the event loop is idle.
C23_Witness ==
  \E o, p \in Objs :
    /\ tasks[o].pc = "delay" /\ tasks[p].pc = "launch" /\ running = 0


\* C24: in every state the totalPages of a job is at least 1: it is 1
\* without a pagination control or with a last entry that is no number, and
\* the number of the last entry otherwise.  A last entry that reads "0"
\* gives totalPages 0.
C24_TotalPagesAtLeastOne ==
  \A o \in Objs :
    /\ heap[o].totalPages >= 1
    /\ heap[o].totalPages =
         (IF sessions[o].control = None THEN 1 ELSE sessions[o].control[1])


\* C25: a poll changes no job object and no key of the store; a job object
\* changes only in a step of its own task, which changes no other one; a
\* submission changes no job object and leaves every key of the store bound
\* as it was.  A submission that reads the millisecond of an earlier one
\* rebinds that one's key.
C25_SingleWriter ==
  [][/\ resp'.op = "poll" => heap' = heap /\ scrapingJobs' = scrapingJobs
     /\ \A p \in Objs :
          heap'[p] # heap[p] =>
            /\ tasks'[p] # tasks[p]
            /\ \A q \in Objs \ {p} : heap'[q] = heap[q] /\ tasks'[q] = tasks[q]
     /\ Len(heap') > Len(heap) =>
          /\ \A p \in Objs : heap'[p] = heap[p]
          /\ \A id \in DOMAIN scrapingJobs :
               id \in DOMAIN scrapingJobs' /\ scrapingJobs'[id] = scrapingJobs[id]]_vars


\* C28: a job object leaves the store only when its own eviction timer
\* fires, with its status completed or failed.  A submission that reads the
\* millisecond of an earlier one takes that one's record out of the store
\* while it is in-progress, and the earlier one's timer later deletes the
\* record of the later one.
C28_EvictedByOwnTimer ==
  [][\A o \in Objs :
       (InStore(o) /\ ~(\E id \in DOMAIN scrapingJobs' : scrapingJobs'[id] = o)) =>
         /\ Terminal(heap[o].status)
         /\ o \in DOMAIN timers /\ o \notin DOMAIN timers'
         /\ now' >= timers[o]]_vars

\* C29: when the 200 response of a submission is produced the job's status
\* is in-progress; whenever the event loop is idle no job object is pending,
\* and no poll returns the status pending.
C29_NeverPolledPending ==
  /\ (resp.op = "submit" /\ resp.code = 200) =>
       (resp.body.status = "pending" /\ heap[Len(heap)].status = "in-progress")
  /\ running = 0 => \A o \in Objs : heap[o].status # "pending"
  /\ PollOk => resp.body.status # "pending"

\* C29's case: the job of the last submission is polled before its browser
\* has launched.
C29_Witness ==
  /\ PollOk /\ resp.body.status = "in-progress"
  /\ resp.req = tasks[Len(heap)].jobId
  /\ tasks[Len(heap)].pc = "launch"

\* C30: the progress of a job is the number of the last page it read whole
\* (container present) over totalPages, and 0 when it has read none; the
\* step that finds a container missing leaves progress and data as they are.
C30_ProgressIsLastReadPage ==
  [][/\ \A o \in 1..Len(heap') :
          LET q == heap'[o].progress
              k == sessions'[o].lastRead
          IN IF k = 0 THEN q.num = 0
             ELSE q.num * heap'[o].totalPages = k * q.den
     /\ event'.what = "page.missing" =>
          /\ heap'[event'.job].progress = heap[event'.job].progress
          /\ heap'[event'.job].data = heap[event'.job].data]_vars

\* C30's case: page 1 was read and page 2 had no container: the completed
\* job's progress is 1/2.
C30_Witness ==
  \E o \in Objs :
    /\ heap[o].status = "completed" /\ heap[o].totalPages = 2
    /\ sessions[o].lastRead = 1 /\ heap[o].progress = [num |-> 1, den |-> 2]


\* The element the last step parsed gave a record, and that record.
GaveRecord ==
  /\ event.what = "item"
  /\ event.item.container
  /\ event.item.name \notin {None, Some(<<>>)}
  /\ event.item.slug \notin {None, Some(<<>>)}
LastFilm == heap[event.job].data[Len(heap[event.job].data)]

\* C26: for a combined string that ends in a space, "(", four digits and
\* ")" the year is the four digits and the name is the string without its
\* last seven characters, trimmed; for any other string the year is absent
\* and the name is the string.  When the suffix also occurs earlier in the
\* string the code takes the earlier occurrence out.
C26_NameAndYear ==
  GaveRecord =>
    LET s == event.item.name[1]
        n == Len(s)
        suffix == /\ n >= 7
                  /\ s[n - 6] = " " /\ s[n - 5] = "(" /\ s[n] = ")"
                  /\ \A i \in (n - 4)..(n - 1) : IsDigit(s[i])
    IN IF suffix
         THEN /\ LastFilm.Year = Some(SubSeq(s, n - 4, n - 1))
              /\ LastFilm.Name = Trim(SubSeq(s, 1, n - 7))
         ELSE /\ LastFilm.Year = None
              /\ LastFilm.Name = s

\* C27: the rating of a record, in half stars, is twice the number of
\* full-star glyphs of the rating text, plus one if the text has a half-star
\* glyph; it is 0 for an empty text.
C27_Rating ==
  GaveRecord =>
    LET text == event.item.ratingText
        stars == Cardinality({i \in 1..Len(text) : text[i] = Star})
        half == \E i \in 1..Len(text) : text[i] = HalfStar
    IN /\ LastFilm.Rating = 2 * stars + (IF half THEN 1 ELSE 0)
       /\ text = <<>> => LastFilm.Rating = 0

\* C27's case: three stars and a half gave 3.5.
C27_Witness ==
  /\ GaveRecord
  /\ event.item.ratingText = <<Star, Star, Star, HalfStar>>
  /\ LastFilm.Rating = 7


\* Request c has been answered with recommendations.
Served(c) == c \in DOMAIN calls /\ calls[c].pc = "done" /\ calls[c].reply.code = 200

\* C31: two requests to the model1 route with the same body are sent the
\* same recommendations, whatever was served before them.  It is stated for
\* the case that favours it most: the second request arrives when the first
\* has been answered, and both train for the same number of epochs.
C31_SameBodySameResult ==
  \A c, d \in DOMAIN calls :
    (/\ c < d
     /\ Served(c)
     /\ Served(d)
     /\ calls[d].quiet
     /\ calls[c].body = calls[d].body
     /\ calls[c].epoch = calls[d].epoch)
    => calls[c].reply.send = calls[d].reply.send

====
